---- MODULE Spec2Model ----
(***************************************************************************)
(* The persistence gateway of prisma/queries.ts over the relational schema *)
(* of schema.prisma: Chat, Message, Vote, Document and Suggestion tables,  *)
(* and the query functions that read and write them.                       *)
(*                                                                         *)
(* Every prisma query is one atomic step on the store.  A function that    *)
(* awaits several queries is a sequence of steps, and steps of different   *)
(* callers interleave.  The foreign keys and unique constraints of the     *)
(* schema are enforced by the store on every write.                        *)
(*                                                                         *)
(* Columns no modelled function reads (titles, owners, visibility, text of *)
(* a suggestion) are left out of the rows; the User table is never written *)
(* to by the functions modelled here and is left out too.                  *)
(***************************************************************************)
EXTENDS Integers, Sequences, FiniteSets, Bags, TLC

\* Callers of the gateway.
Procs == {"p1", "p2"}

\* Bounds of the model.
MaxChats == 2      \* chat uuids ever generated, callers in sequence
MaxMsgs == 2       \* message uuids ever generated, callers in sequence
MaxDocs == 2       \* document uuids ever generated, callers in sequence
MaxSugs == 2       \* suggestion uuids ever generated, callers in sequence
RaceChats == 1     \* chat uuids ever generated, callers in parallel
RaceMsgs == 2      \* message uuids ever generated, callers in parallel
RaceDocs == 2      \* document uuids ever generated, callers in parallel
RaceSugs == 2      \* suggestion uuids ever generated, callers in parallel
MaxBatch == 2      \* longest sequence given to saveMessages / saveSuggestions
MaxTime == 2       \* last reading of the clock
MaxFaults == 2     \* queries the store may fail for reasons of its own, callers in sequence
RaceFaults == 1    \* queries the store may fail for reasons of its own, callers in parallel

Times == 1..MaxTime

\* The messages a caller passes to saveMessages: the first n turns of a
\* conversation, the user and the assistant speaking in turn.
Turn(i) == [role |-> IF i % 2 = 1 THEN "user" ELSE "assistant", content |-> i]
Batches == { [i \in 1..n |-> Turn(i)] : n \in 0..MaxBatch }

\* Vote directions.
Directions == {"up", "down"}

\* Error codes a query may end in.
UniqueViolation == "P2002"
ForeignKeyViolation == "P2003"
RecordNotFound == "P2025"
StoreUnavailable == "P1001"
DocumentNotFound == "Document not found"
NoError == "none"

VARIABLES
  chats,        \* Chat rows: set of [id]
  messages,     \* Message rows: set of [id, chatId, role, content, createdAt]
  votes,        \* Vote rows: bag of [chatId, messageId, isUpvoted]
  documents,    \* Document rows: set of [id, createdAt]
  suggestions,  \* Suggestion rows: set of [id, documentId, documentCreatedAt]
  now,          \* the clock read by new Date()
  uuids,        \* uuids generated so far, per table
  cap,          \* the setup: uuids each table may ever generate, queries that may
                \* fail, callers serial or not
  call,         \* per caller: the call in progress
  strays,       \* bag of inserts still on their way to the store, their call rejected
  ret,          \* the call that returned in the last step, if one did: [op, arg, res]
  faults        \* queries failed by the store so far

vars ==
  <<chats, messages, votes, documents, suggestions, now, uuids, cap, call, strays, ret, faults>>
chatVars == <<chats, messages, votes>>
docVars == <<documents, suggestions>>

----------------------------------------------------------------------------
\* Sequences and orderings

\* All sequences that list the finite set S once each.
Perms(S) ==
  { s \in [1..Cardinality(S) -> S] : \A i, j \in 1..Cardinality(S) : i # j => s[i] # s[j] }

\* orderBy: { createdAt: 'asc' }: the rows of S in ascending createdAt; rows
\* with equal createdAt come in an order the store does not define.
OrderByCreatedAtAsc(S) ==
  { s \in Perms(S) : \A i, j \in 1..Cardinality(S) : i < j => s[i].createdAt <= s[j].createdAt }

\* The range of a sequence.
Range(s) == { s[i] : i \in DOMAIN s }

----------------------------------------------------------------------------
\* The schema: rows, keys and references

ChatExists(c) == \E r \in chats : r.id = c

MessageExists(m) == \E r \in messages : r.id = m

VoteRows == BagToSet(votes)

\* Vote without its @@id: no key is ever taken.
VoteKeyNeverTaken(c, m) == FALSE

\* @@id([chatId, messageId]) of Vote: a row with this key is present.
VoteKeyTaken(c, m) == \E r \in VoteRows : r.chatId = c /\ r.messageId = m

\* Chat without the references to it: only votes hold a chat in place.
ChatReferencedByVotes(c) == \E r \in BagToSet(votes) : r.chatId = c

\* Message.chat and Vote.chat reference Chat.id: rows that hold chat c in place.
ChatReferenced(c) ==
  \/ \E r \in messages : r.chatId = c
  \/ \E r \in VoteRows : r.chatId = c

\* Vote.message references Message.id: a vote holds message m in place.
MessageReferenced(m) == \E r \in VoteRows : r.messageId = m

\* Suggestion.document references Document(id, createdAt).
DocumentVersionExists(d, t) == \E r \in documents : r.id = d /\ r.createdAt = t

DocumentReferenced(r) ==
  \E s \in suggestions : s.documentId = r.id /\ s.documentCreatedAt = r.createdAt

\* The bag b without the rows of the set S.
BagWithout(b, S) == [r \in (DOMAIN b) \ S |-> b[r]]

----------------------------------------------------------------------------
\* Calls

Result(err, val) == [err |-> err, val |-> val]

\* No call returned.
Void == [op |-> "none", arg |-> <<>>, res |-> Result(NoError, <<>>)]

\* before: with callers in sequence, the call that had just returned when this
\* one began.
AtRest == [op |-> "none", pc |-> "rest", arg |-> <<>>, loc |-> <<>>, pend |-> {},
           before |-> Void]

\* Caller p has no call in progress.
Idle(p) == call[p].pc = "rest"

\* No caller but p has a call in progress.
Alone(p) == \A q \in Procs \ {p} : Idle(q)

\* Caller p may make a call: at once when callers run in parallel, when every
\* other call has returned when they run one after the other.
MayBegin(p) == Idle(p) /\ (cap.serial => Alone(p))

\* A call begins and has further queries to run.
Begin(p, op, arg, pc, loc, pend) ==
  /\ call' = [call EXCEPT ![p] = [op |-> op, pc |-> pc, arg |-> arg, loc |-> loc,
                                  pend |-> pend,
                                  before |-> IF cap.serial THEN ret ELSE Void]]
  /\ ret' = Void
  /\ UNCHANGED strays

\* A call of a single query begins and returns res in one step.
Complete(p, op, arg, res) ==
  /\ ret' = [op |-> op, arg |-> arg, res |-> res]
  /\ UNCHANGED <<call, strays>>

\* Insert i of the saveMessages or saveSuggestions in progress of p.
InsertOf(p, i) ==
  IF call[p].op = "saveMessages"
  THEN [op |-> "saveMessages", chatId |-> call[p].arg.chatId,
        role |-> call[p].arg.messages[i].role, content |-> call[p].arg.messages[i].content,
        createdAt |-> call[p].loc.stamps[i]]
  ELSE [op |-> "saveSuggestions", documentId |-> call[p].arg.documentId,
        documentCreatedAt |-> call[p].loc.documentCreatedAt]

\* The inserts in pend of the call in progress of p, as a bag.
Orphans(p, pend) ==
  LET S == { InsertOf(p, i) : i \in pend } IN
    [d \in S |-> Cardinality({ i \in pend : InsertOf(p, i) = d })]

\* The call in progress of p returns res to its caller, who may call again at
\* once; the inserts in pend are still on their way to the store.
Return(p, pend, res) ==
  /\ ret' = [op |-> call[p].op, arg |-> call[p].arg, res |-> res]
  /\ call' = [call EXCEPT ![p] = AtRest]
  /\ strays' = IF pend = {} THEN strays ELSE strays (+) Orphans(p, pend)

\* The call in progress of p moves on to its next query.
Goto(p, pc, loc) ==
  /\ call' = [call EXCEPT ![p].pc = pc, ![p].loc = loc]
  /\ ret' = Void
  /\ UNCHANGED strays

\* The store is empty and no call has been made.
Init(rows) ==
  /\ cap = rows
  /\ chats = {}
  /\ messages = {}
  /\ votes = EmptyBag
  /\ documents = {}
  /\ suggestions = {}
  /\ now = 1
  /\ uuids = [chat |-> 0, message |-> 0, document |-> 0, suggestion |-> 0]
  /\ call = [p \in Procs |-> AtRest]
  /\ strays = EmptyBag
  /\ ret = Void
  /\ faults = 0

\* Time passes.
Tick ==
  /\ now < MaxTime
  /\ now' = now + 1
  /\ ret' = Void
  /\ UNCHANGED <<chatVars, docVars, uuids, cap, call, strays, faults>>

----------------------------------------------------------------------------
\* Chat store

\* createChat: prisma.chat.create with a generated id.
CreateChat(p) ==
  /\ MayBegin(p)
  /\ uuids.chat < cap.chat
  /\ LET row == [id |-> uuids.chat + 1] IN
       /\ chats' = chats \cup {row}
       /\ Complete(p, "createChat", <<>>, Result(NoError, {row}))
  /\ uuids' = [uuids EXCEPT !.chat = @ + 1]
  /\ UNCHANGED <<messages, votes, docVars, now, cap, faults>>

\* getChatById: prisma.chat.findUnique({ where: { id } }); no row is null.
GetChatById(p, id) ==
  /\ MayBegin(p)
  /\ Complete(p, "getChatById", [id |-> id], Result(NoError, { r \in chats : r.id = id }))
  /\ UNCHANGED <<chatVars, docVars, now, uuids, cap, faults>>

\* What deleteChatById leaves behind: the Chat row it returns, if any, and the
\* number of votes and messages its deleteMany queries removed.
Deleted(row, removed) == [chat |-> row, removed |-> removed]

\* deleteChatById, first query: prisma.vote.deleteMany({ where: { chatId: id } }).
DeleteChatVotes(p, id) ==
  /\ MayBegin(p)
  /\ LET gone == { r \in VoteRows : r.chatId = id } IN
       /\ votes' = BagWithout(votes, gone)
       /\ Begin(p, "deleteChatById", [id |-> id], "message.deleteMany",
                [removed |-> Cardinality(gone)], {})
  /\ UNCHANGED <<chats, messages, docVars, now, uuids, cap, faults>>

\* deleteChatById, second query: prisma.message.deleteMany({ where: { chatId: id } }).
\* The statement fails as a whole when a vote still references one of its rows.
DeleteChatMessages(p) ==
  /\ call[p].op = "deleteChatById" /\ call[p].pc = "message.deleteMany"
  /\ LET gone == { r \in messages : r.chatId = call[p].arg.id } IN
       IF \E r \in gone : MessageReferenced(r.id)
       THEN /\ Return(p, {}, Result(ForeignKeyViolation, Deleted({}, call[p].loc.removed)))
            /\ UNCHANGED messages
       ELSE /\ messages' = messages \ gone
            /\ Goto(p, "chat.delete", [removed |-> call[p].loc.removed + Cardinality(gone)])
  /\ UNCHANGED <<chats, votes, docVars, now, uuids, cap, faults>>

\* The Chat rows prisma.chat.delete({ where: { id } }) removes.
ChatDeleteTarget(id) == { r \in chats : r.id = id }

\* deleteChatById, last query: prisma.chat.delete({ where: { id } }).
DeleteChatRow(p) ==
  /\ call[p].op = "deleteChatById" /\ call[p].pc = "chat.delete"
  /\ LET id == call[p].arg.id
         removed == call[p].loc.removed IN
       IF ~ChatExists(id)
       THEN /\ Return(p, {}, Result(RecordNotFound, Deleted({}, removed)))
            /\ UNCHANGED chats
       ELSE IF ChatReferenced(id)
       THEN /\ Return(p, {}, Result(ForeignKeyViolation, Deleted({}, removed)))
            /\ UNCHANGED chats
       ELSE /\ chats' = chats \ ChatDeleteTarget(id)
            /\ Return(p, {}, Result(NoError, Deleted(ChatDeleteTarget(id), removed)))
  /\ UNCHANGED <<messages, votes, docVars, now, uuids, cap, faults>>

----------------------------------------------------------------------------
\* Message store

\* getMessagesByChatId: findMany({ where: { chatId: id }, orderBy: { createdAt: 'asc' } }).
GetMessagesByChatId(p, id) ==
  /\ MayBegin(p)
  /\ \E s \in OrderByCreatedAtAsc({ r \in messages : r.chatId = id }) :
       Complete(p, "getMessagesByChatId", [id |-> id], Result(NoError, s))
  /\ UNCHANGED <<chatVars, docVars, now, uuids, cap, faults>>

\* Inserts issued by calls of op and not yet settled.
PendingInserts(op) ==
  LET n[S \in SUBSET Procs] ==
        IF S = {} THEN 0
        ELSE LET q == CHOOSE x \in S : TRUE IN
               (IF call[q].op = op THEN Cardinality(call[q].pend) ELSE 0) + n[S \ {q}]
  IN n[Procs] + BagCardinality([d \in { x \in DOMAIN strays : x.op = op } |-> strays[d]])

\* saveMessages up to its await: messages.map(...) issues one
\* prisma.message.create per message, each with createdAt: new Date().  The
\* first k are stamped before the clock advances, the others after.
SaveMessages(p, chatId, msgs, k) ==
  /\ MayBegin(p)
  /\ uuids.message + PendingInserts("saveMessages") + Len(msgs) <= cap.message
  /\ k <= Len(msgs)
  /\ (Len(msgs) > 0) => (k >= 1)
  /\ (k < Len(msgs)) => (now < MaxTime)
  /\ now' = IF k < Len(msgs) THEN now + 1 ELSE now
  /\ LET arg == [chatId |-> chatId, messages |-> msgs]
         stamps == [i \in DOMAIN msgs |-> IF i <= k THEN now ELSE now + 1] IN
       IF msgs = <<>>
       THEN Complete(p, "saveMessages", arg, Result(NoError, <<>>))
       ELSE /\ Begin(p, "saveMessages", arg, "message.create",
                     [stamps |-> stamps, rows |-> [i \in DOMAIN msgs |-> {}]], DOMAIN msgs)
  /\ UNCHANGED <<chatVars, docVars, uuids, cap, faults>>

\* Promise.all over the inserts of p once insert i has settled: it resolves
\* with every row, in the order of the input, when the last insert has
\* resolved, and rejects with the first insert that fails; the inserts still
\* pending then run on, their outcome dropped.
Settle(p, i, rows, err) ==
  LET pend == call[p].pend \ {i} IN
    IF err # NoError
    THEN Return(p, pend, Result(err, <<>>))
    ELSE IF pend = {}
    THEN Return(p, pend, Result(NoError, [j \in DOMAIN rows |-> CHOOSE r \in rows[j] : TRUE]))
    ELSE /\ call' = [call EXCEPT ![p].pend = pend, ![p].loc.rows = rows]
         /\ ret' = Void
         /\ UNCHANGED strays

\* One prisma.message.create of saveMessages reaches the store.
MessageCreate(p, i) ==
  /\ call[p].op = "saveMessages" /\ i \in call[p].pend
  /\ LET m == call[p].arg.messages[i]
         row == [id |-> uuids.message + 1, chatId |-> call[p].arg.chatId, role |-> m.role,
                 content |-> m.content, createdAt |-> call[p].loc.stamps[i]] IN
       IF ChatExists(call[p].arg.chatId)
       THEN /\ messages' = messages \cup {row}
            /\ uuids' = [uuids EXCEPT !.message = @ + 1]
            /\ Settle(p, i, [call[p].loc.rows EXCEPT ![i] = {row}], NoError)
       ELSE /\ Settle(p, i, call[p].loc.rows, ForeignKeyViolation)
            /\ UNCHANGED <<messages, uuids>>
  /\ UNCHANGED <<chats, votes, docVars, now, cap, faults>>

\* One prisma.message.create of a saveMessages that has rejected reaches the
\* store; nobody awaits its outcome.
StrayMessageCreate(s) ==
  /\ s \in DOMAIN strays /\ s.op = "saveMessages"
  /\ strays' = strays (-) SetToBag({s})
  /\ IF ChatExists(s.chatId)
     THEN /\ messages' = messages \cup {[id |-> uuids.message + 1, chatId |-> s.chatId,
                                          role |-> s.role, content |-> s.content,
                                          createdAt |-> s.createdAt]}
          /\ uuids' = [uuids EXCEPT !.message = @ + 1]
     ELSE UNCHANGED <<messages, uuids>>
  /\ ret' = Void
  /\ UNCHANGED <<chats, votes, docVars, now, cap, call, faults>>

\* The filter with gt for gte.
After(r, timestamp) == r.createdAt > timestamp

\* The createdAt filter of deleteMessagesByChatIdAfterTimestamp: { gte: timestamp }.
AtOrAfter(r, timestamp) == r.createdAt >= timestamp

\* deleteMessagesByChatIdAfterTimestamp: one prisma.message.deleteMany.
DeleteMessagesByChatIdAfterTimestamp(p, chatId, timestamp) ==
  /\ MayBegin(p)
  /\ LET gone == { r \in messages : r.chatId = chatId /\ AtOrAfter(r, timestamp) }
         arg == [chatId |-> chatId, timestamp |-> timestamp] IN
       IF \E r \in gone : MessageReferenced(r.id)
       THEN /\ Complete(p, "deleteMessagesByChatIdAfterTimestamp", arg,
                        Result(ForeignKeyViolation, [count |-> 0]))
            /\ UNCHANGED messages
       ELSE /\ messages' = messages \ gone
            /\ Complete(p, "deleteMessagesByChatIdAfterTimestamp", arg,
                        Result(NoError, [count |-> Cardinality(gone)]))
  /\ UNCHANGED <<chats, votes, docVars, now, uuids, cap, faults>>

----------------------------------------------------------------------------
\* Vote store

\* The where clause of the findFirst of voteMessage: { messageId }.
VoteLookup(messageId) == { r \in VoteRows : r.messageId = messageId }

\* The row voteMessage writes.
VoteRow(a) == [chatId |-> a.chatId, messageId |-> a.messageId, isUpvoted |-> (a.type = "up")]

\* voteMessage, first query: prisma.vote.findFirst({ where: { messageId } }).
VoteFind(p, chatId, messageId, type) ==
  /\ MayBegin(p)
  /\ LET hits == VoteLookup(messageId) IN
       \E existingVote \in (IF hits = {} THEN {{}} ELSE { {r} : r \in hits }) :
         Begin(p, "voteMessage", [chatId |-> chatId, messageId |-> messageId, type |-> type],
               IF existingVote # {} THEN "vote.update" ELSE "vote.create",
               [existingVote |-> existingVote], {})
  /\ UNCHANGED <<chatVars, docVars, now, uuids, cap, faults>>

\* voteMessage, existing vote: prisma.vote.update on the key (chatId, messageId).
VoteUpdate(p) ==
  /\ call[p].op = "voteMessage" /\ call[p].pc = "vote.update"
  /\ LET a == call[p].arg
         old == { r \in VoteRows : r.chatId = a.chatId /\ r.messageId = a.messageId } IN
       IF old = {}
       THEN /\ Return(p, {}, Result(RecordNotFound, {}))
            /\ UNCHANGED votes
       ELSE /\ votes' = BagWithout(votes, old) (+) SetToBag({VoteRow(a)})
            /\ Return(p, {}, Result(NoError, {VoteRow(a)}))
  /\ UNCHANGED <<chats, messages, docVars, now, uuids, cap, faults>>

\* voteMessage, no existing vote: prisma.vote.create.
VoteCreate(p) ==
  /\ call[p].op = "voteMessage" /\ call[p].pc = "vote.create"
  /\ LET a == call[p].arg IN
       IF VoteKeyTaken(a.chatId, a.messageId)
       THEN /\ Return(p, {}, Result(UniqueViolation, {}))
            /\ UNCHANGED votes
       ELSE IF ~ChatExists(a.chatId) \/ ~MessageExists(a.messageId)
       THEN /\ Return(p, {}, Result(ForeignKeyViolation, {}))
            /\ UNCHANGED votes
       ELSE /\ votes' = votes (+) SetToBag({VoteRow(a)})
            /\ Return(p, {}, Result(NoError, {VoteRow(a)}))
  /\ UNCHANGED <<chats, messages, docVars, now, uuids, cap, faults>>

----------------------------------------------------------------------------
\* Document store

\* saveDocument(userId, title, content) up to its query: createdAt: new Date()
\* is read when the function is called and prisma.document.create is issued.
\* id is the document the caller means to save a version of, {} for a new
\* document; the function has no parameter for it and nothing of it reaches
\* the store.
SaveDocument(p, id) ==
  /\ MayBegin(p)
  /\ uuids.document + Cardinality({ q \in Procs : call[q].pc = "document.create" })
       < cap.document
  /\ Begin(p, "saveDocument", [id |-> id], "document.create", [createdAt |-> now], {})
  /\ UNCHANGED <<chatVars, docVars, now, uuids, cap, faults>>

\* saveDocument, its query: prisma.document.create reaches the store; the row
\* gets a generated id and the createdAt read at the call.
DocumentCreate(p) ==
  /\ call[p].op = "saveDocument" /\ call[p].pc = "document.create"
  /\ LET row == [id |-> uuids.document + 1, createdAt |-> call[p].loc.createdAt] IN
       /\ documents' = documents \cup {row}
       /\ Return(p, {}, Result(NoError, {row}))
  /\ uuids' = [uuids EXCEPT !.document = @ + 1]
  /\ UNCHANGED <<chatVars, suggestions, now, cap, faults>>

\* deleteDocumentsByIdAfterTimestamp, first query: prisma.suggestion.deleteMany
\* where documentId = id and documentCreatedAt > timestamp.
DeleteDocumentSuggestions(p, id, timestamp) ==
  /\ MayBegin(p)
  /\ LET gone == { r \in suggestions : r.documentId = id /\ r.documentCreatedAt > timestamp } IN
       /\ suggestions' = suggestions \ gone
       /\ Begin(p, "deleteDocumentsByIdAfterTimestamp", [id |-> id, timestamp |-> timestamp],
                "document.deleteMany", [removed |-> Cardinality(gone)], {})
  /\ UNCHANGED <<chatVars, documents, now, uuids, cap, faults>>

\* deleteDocumentsByIdAfterTimestamp, second query: prisma.document.deleteMany
\* where id = id and createdAt > timestamp.  The statement fails as a whole when
\* a suggestion still references one of its rows.
DeleteDocumentRows(p) ==
  /\ call[p].op = "deleteDocumentsByIdAfterTimestamp" /\ call[p].pc = "document.deleteMany"
  /\ LET a == call[p].arg
         gone == { r \in documents : r.id = a.id /\ r.createdAt > a.timestamp } IN
       IF \E r \in gone : DocumentReferenced(r)
       THEN /\ Return(p, {}, Result(ForeignKeyViolation, [count |-> 0]))
            /\ UNCHANGED documents
       ELSE /\ documents' = documents \ gone
            /\ Return(p, {}, Result(NoError, [count |-> Cardinality(gone)]))
  /\ UNCHANGED <<chatVars, suggestions, now, uuids, cap, faults>>

----------------------------------------------------------------------------
\* Suggestion store

\* The lookup without its where clause: any document will do.
AnyDocument(documentId) == documents

\* prisma.document.findUnique({ where: { id: documentId }, select: { createdAt: true } }).
DocumentLookup(documentId) == { r \in documents : r.id = documentId }

\* saveSuggestions up to its second await: the lookup of the document, the
\* throw when there is none, and suggestions.map(...) issuing one
\* prisma.suggestion.create per suggestion, n of them.
SaveSuggestions(p, documentId, n) ==
  /\ MayBegin(p)
  /\ LET arg == [documentId |-> documentId, suggestions |-> n] IN
       \E document \in (IF DocumentLookup(documentId) = {} THEN {{}}
                        ELSE { {r} : r \in DocumentLookup(documentId) }) :
         IF document = {}
         THEN Complete(p, "saveSuggestions", arg, Result(DocumentNotFound, <<>>))
         ELSE /\ uuids.suggestion + PendingInserts("saveSuggestions") + n <= cap.suggestion
              /\ IF n = 0
                 THEN Complete(p, "saveSuggestions", arg, Result(NoError, <<>>))
                 ELSE Begin(p, "saveSuggestions", arg, "suggestion.create",
                            [documentCreatedAt |-> (CHOOSE r \in document : TRUE).createdAt,
                             rows |-> [i \in 1..n |-> {}]], 1..n)
  /\ UNCHANGED <<chatVars, docVars, now, uuids, cap, faults>>

\* One prisma.suggestion.create of saveSuggestions reaches the store.
SuggestionCreate(p, i) ==
  /\ call[p].op = "saveSuggestions" /\ i \in call[p].pend
  /\ LET row == [id |-> uuids.suggestion + 1, documentId |-> call[p].arg.documentId,
                 documentCreatedAt |-> call[p].loc.documentCreatedAt] IN
       IF DocumentVersionExists(row.documentId, row.documentCreatedAt)
       THEN /\ suggestions' = suggestions \cup {row}
            /\ uuids' = [uuids EXCEPT !.suggestion = @ + 1]
            /\ Settle(p, i, [call[p].loc.rows EXCEPT ![i] = {row}], NoError)
       ELSE /\ Settle(p, i, call[p].loc.rows, ForeignKeyViolation)
            /\ UNCHANGED <<suggestions, uuids>>
  /\ UNCHANGED <<chatVars, documents, now, cap, faults>>

\* One prisma.suggestion.create of a saveSuggestions that has rejected reaches
\* the store; nobody awaits its outcome.
StraySuggestionCreate(s) ==
  /\ s \in DOMAIN strays /\ s.op = "saveSuggestions"
  /\ strays' = strays (-) SetToBag({s})
  /\ IF DocumentVersionExists(s.documentId, s.documentCreatedAt)
     THEN /\ suggestions' = suggestions \cup {[id |-> uuids.suggestion + 1,
                                                documentId |-> s.documentId,
                                                documentCreatedAt |-> s.documentCreatedAt]}
          /\ uuids' = [uuids EXCEPT !.suggestion = @ + 1]
     ELSE UNCHANGED <<suggestions, uuids>>
  /\ ret' = Void
  /\ UNCHANGED <<chatVars, documents, now, cap, call, faults>>

----------------------------------------------------------------------------
\* Failures of the store itself

\* What a call of op that rejects leaves its caller with.
Nothing(op, removed) ==
  IF op = "deleteChatById" THEN Deleted({}, removed)
  ELSE IF op \in {"deleteMessagesByChatIdAfterTimestamp", "deleteDocumentsByIdAfterTimestamp"}
  THEN [count |-> 0]
  ELSE IF op \in {"saveMessages", "saveSuggestions"} THEN <<>>
  ELSE {}

\* The first query of a call of op fails (connection lost, timeout): the store
\* is left as it was and the error propagates to the caller.
FirstQueryFails(p, op, arg) ==
  /\ MayBegin(p)
  /\ faults < cap.faults
  /\ faults' = faults + 1
  /\ Complete(p, op, arg, Result(StoreUnavailable, Nothing(op, 0)))
  /\ UNCHANGED <<chatVars, docVars, now, uuids, cap>>

\* The query the call in progress of p is about to run fails: the store is
\* left as the earlier queries of the call made it and the error propagates
\* to the caller.
QueryFails(p) ==
  /\ call[p].pc \in {"message.deleteMany", "chat.delete", "vote.update", "vote.create",
                     "document.create", "document.deleteMany"}
  /\ faults < cap.faults
  /\ faults' = faults + 1
  /\ Return(p, {}, Result(StoreUnavailable,
                          Nothing(call[p].op, IF call[p].op = "deleteChatById"
                                              THEN call[p].loc.removed ELSE 0)))
  /\ UNCHANGED <<chatVars, docVars, now, uuids, cap>>

\* One insert of saveMessages fails in the store.
MessageCreateFails(p, i) ==
  /\ call[p].op = "saveMessages" /\ i \in call[p].pend
  /\ faults < cap.faults
  /\ faults' = faults + 1
  /\ Settle(p, i, call[p].loc.rows, StoreUnavailable)
  /\ UNCHANGED <<chatVars, docVars, now, uuids, cap>>

\* One insert of saveSuggestions fails in the store.
SuggestionCreateFails(p, i) ==
  /\ call[p].op = "saveSuggestions" /\ i \in call[p].pend
  /\ faults < cap.faults
  /\ faults' = faults + 1
  /\ Settle(p, i, call[p].loc.rows, StoreUnavailable)
  /\ UNCHANGED <<chatVars, docVars, now, uuids, cap>>

\* An insert of a call that has rejected fails in the store.
StrayFails(s) ==
  /\ s \in DOMAIN strays
  /\ faults < cap.faults
  /\ faults' = faults + 1
  /\ strays' = strays (-) SetToBag({s})
  /\ ret' = Void
  /\ UNCHANGED <<chatVars, docVars, now, uuids, cap, call>>

----------------------------------------------------------------------------
\* Specifications

\* Setups of the model: the uuids each table may generate, the queries the
\* store may fail, and whether the callers run one after the other.
Size(c, m, d, s, f, serial) ==
  [chat |-> c, message |-> m, document |-> d, suggestion |-> s, faults |-> f,
   serial |-> serial]

ChatIds == 1..cap.chat
MsgIds == 1..cap.message
DocIds == 1..cap.document
SugIds == 1..cap.suggestion

\* A step of caller p on the chat, message and vote stores.
ChatStep(p) ==
  \/ CreateChat(p)
  \/ \E id \in ChatIds : GetChatById(p, id)
  \/ \E id \in ChatIds : DeleteChatVotes(p, id)
  \/ DeleteChatMessages(p)
  \/ DeleteChatRow(p)
  \/ \E id \in ChatIds : GetMessagesByChatId(p, id)
  \/ \E id \in ChatIds, msgs \in Batches, k \in 0..MaxBatch : SaveMessages(p, id, msgs, k)
  \/ \E i \in 1..MaxBatch : MessageCreate(p, i)
  \/ \E i \in 1..MaxBatch : MessageCreateFails(p, i)
  \/ \E id \in ChatIds, t \in Times : DeleteMessagesByChatIdAfterTimestamp(p, id, t)
  \/ \E c \in ChatIds, m \in MsgIds, d \in Directions : VoteFind(p, c, m, d)
  \/ VoteUpdate(p)
  \/ VoteCreate(p)
  \/ QueryFails(p)
  \/ FirstQueryFails(p, "createChat", <<>>)
  \/ \E id \in ChatIds : FirstQueryFails(p, "getChatById", [id |-> id])
  \/ \E id \in ChatIds : FirstQueryFails(p, "deleteChatById", [id |-> id])
  \/ \E id \in ChatIds : FirstQueryFails(p, "getMessagesByChatId", [id |-> id])
  \/ \E id \in ChatIds, t \in Times :
       FirstQueryFails(p, "deleteMessagesByChatIdAfterTimestamp",
                       [chatId |-> id, timestamp |-> t])
  \/ \E c \in ChatIds, m \in MsgIds, d \in Directions :
       FirstQueryFails(p, "voteMessage", [chatId |-> c, messageId |-> m, type |-> d])

ChatNext ==
  \/ Tick
  \/ \E p \in Procs : ChatStep(p)
  \/ \E s \in DOMAIN strays : StrayMessageCreate(s)
  \/ \E s \in DOMAIN strays : StrayFails(s)

\* Callers run concurrently: their queries interleave.
ChatInit == Init(Size(RaceChats, RaceMsgs, 0, 0, RaceFaults, FALSE))
ChatSpec == ChatInit /\ [][ChatNext]_vars

\* Callers run one after the other: a call begins when every other has returned.
ChatSeqInit ==
  Init(Size(MaxChats, 1, 0, 0, MaxFaults, TRUE)) \/ Init(Size(1, MaxMsgs, 0, 0, MaxFaults, TRUE))
ChatSeqSpec == ChatSeqInit /\ [][ChatNext]_vars

\* A step of caller p on the document and suggestion stores.
DocStep(p) ==
  \/ \E id \in {{}} \cup { {d} : d \in DocIds } : SaveDocument(p, id)
  \/ DocumentCreate(p)
  \/ \E id \in DocIds, t \in Times : DeleteDocumentSuggestions(p, id, t)
  \/ DeleteDocumentRows(p)
  \/ \E id \in DocIds, n \in 0..MaxBatch : SaveSuggestions(p, id, n)
  \/ \E i \in 1..MaxBatch : SuggestionCreate(p, i)
  \/ \E i \in 1..MaxBatch : SuggestionCreateFails(p, i)
  \/ QueryFails(p)
  \/ \E id \in DocIds, t \in Times :
       FirstQueryFails(p, "deleteDocumentsByIdAfterTimestamp", [id |-> id, timestamp |-> t])
  \/ \E id \in DocIds, n \in 0..MaxBatch :
       FirstQueryFails(p, "saveSuggestions", [documentId |-> id, suggestions |-> n])

DocNext ==
  \/ Tick
  \/ \E p \in Procs : DocStep(p)
  \/ \E s \in DOMAIN strays : StraySuggestionCreate(s)
  \/ \E s \in DOMAIN strays : StrayFails(s)

DocInit == Init(Size(0, 0, RaceDocs, RaceSugs, RaceFaults, FALSE))
DocSpec == DocInit /\ [][DocNext]_vars

DocSeqInit == Init(Size(0, 0, MaxDocs, MaxSugs, MaxFaults, TRUE))
DocSeqSpec == DocSeqInit /\ [][DocNext]_vars

----------------------------------------------------------------------------
\* Properties

\* The Vote rows with key (c, m) in the bag b, counted with their copies.
CopiesOfKey(b, c, m) ==
  LET rows == { r \in DOMAIN b : r.chatId = c /\ r.messageId = m }
      n[S \in SUBSET rows] ==
        IF S = {} THEN 0
        ELSE LET r == CHOOSE x \in S : TRUE IN b[r] + n[S \ {r}]
  IN n[rows]

\* C1: two voteMessage calls on the same (chatId, messageId), one right after
\* the other and with different directions, on an existing chat and message,
\* leave exactly one Vote row with that key, its isUpvoted that of the second
\* call, and neither call ends in a unique-constraint violation.
C1_TwoVotesLeaveLatest ==
  [][\A p \in Procs :
       ( /\ VoteUpdate(p) \/ VoteCreate(p)
         /\ call[p].before.op = "voteMessage"
         /\ call[p].before.arg.chatId = call[p].arg.chatId
         /\ call[p].before.arg.messageId = call[p].arg.messageId
         /\ call[p].before.arg.type # call[p].arg.type
         /\ call[p].before.res.err # StoreUnavailable
         /\ ChatExists(call[p].arg.chatId)
         /\ MessageExists(call[p].arg.messageId) )
       => /\ CopiesOfKey(votes', call[p].arg.chatId, call[p].arg.messageId) = 1
          /\ VoteRow(call[p].arg) \in DOMAIN votes'
          /\ call[p].before.res.err # UniqueViolation
          /\ ret'.res.err # UniqueViolation]_vars

\* A chat id that was generated and whose row is no longer there: only the
\* chat.delete of a deleteChatById that returned its Chat removes a row.
Gone(c) == c <= uuids.chat /\ ~ChatExists(c)

\* deleteChatById(c) returns its Chat in this step.
DeleteChatReturns(c) ==
  \E p \in Procs : DeleteChatRow(p) /\ call[p].arg.id = c /\ ret'.res.err = NoError

\* C2: once deleteChatById(c) has returned successfully, no Vote and no Message
\* row has chatId = c, the Chat row is gone, and every later getChatById(c)
\* returns null, whatever the other callers do meanwhile.
C2_DeletedChatIsGone ==
  [][\A c \in ChatIds :
       (DeleteChatReturns(c) \/ Gone(c))
       => /\ Gone(c)'
          /\ \A r \in messages' : r.chatId # c
          /\ \A r \in DOMAIN votes' : r.chatId # c
          /\ \A q \in Procs : GetChatById(q, c) => ret'.res.val = {}]_vars

\* C2 witness: a deleteChatById that removed votes or messages has returned its Chat.
C2_Witness ==
  /\ ret.op = "deleteChatById"
  /\ ret.res.err = NoError
  /\ ret.res.val.removed > 0
  /\ Gone(ret.arg.id)

\* C3: deleteChatById is transactional: no state shows votes or messages of
\* the chat removed by a call while the Chat row is still there, and a call
\* that fails has removed nothing.
C3_DeleteChatIsTransactional ==
  /\ \A p \in Procs :
       (call[p].op = "deleteChatById" /\ call[p].loc.removed > 0)
       => ~ChatExists(call[p].arg.id)
  /\ (ret.op = "deleteChatById" /\ ret.res.err # NoError) => ret.res.val.removed = 0

\* C4: saveMessages is all-or-nothing: when it returns, either it returns
\* every message and every one is stored, or it fails and none of its
\* messages is stored.
C4_SaveMessagesAllOrNothing ==
  [][\A p \in Procs, i \in 1..MaxBatch :
       ( /\ MessageCreate(p, i) \/ MessageCreateFails(p, i)
         /\ call[p].pc = "message.create"
         /\ call'[p].pc = "rest" )
       => \/ /\ ret'.res.err = NoError
             /\ Len(ret'.res.val) = Len(call[p].arg.messages)
             /\ Range(ret'.res.val) \subseteq messages'
          \/ /\ ret'.res.err # NoError
             /\ \A j \in DOMAIN call[p].loc.rows : call[p].loc.rows[j] \cap messages' = {}]_vars

\* C5: a successful deleteMessagesByChatIdAfterTimestamp(c, t) removes exactly
\* the messages of chat c with createdAt >= t, keeps every other message, and
\* returns the number of rows it removed.
C5_DeleteAfterTimestampExact ==
  [][\A p \in Procs, c \in ChatIds, t \in Times :
       (DeleteMessagesByChatIdAfterTimestamp(p, c, t) /\ ret'.res.err = NoError)
       => /\ messages' = { r \in messages : ~(r.chatId = c /\ r.createdAt >= t) }
          /\ ret'.res.val.count = Cardinality(messages) - Cardinality(messages')
          /\ UNCHANGED <<chats, votes>>]_vars

\* C5 witness: a delete that removed a message and kept an earlier one of the chat.
C5_Witness ==
  /\ ret.op = "deleteMessagesByChatIdAfterTimestamp"
  /\ ret.res.err = NoError
  /\ ret.res.val.count > 0
  /\ \E r \in messages : r.chatId = ret.arg.chatId /\ r.createdAt < ret.arg.timestamp

\* C6: after a version of a document is saved at t1 and a second version of
\* the same id at t2 > t1, deleteDocumentsByIdAfterTimestamp(id, t1) deletes
\* the t2 row and the suggestions pinned to it and keeps the t1 row and its
\* suggestions.
C6_DeleteKeepsFirstVersionOnly ==
  [][\A p \in Procs :
       ( /\ DeleteDocumentRows(p)
         /\ call[p].before.op = "saveDocument"
         /\ call[p].before.arg.id = {call[p].arg.id}
         /\ call[p].before.res.err = NoError
         /\ DocumentVersionExists(call[p].arg.id, call[p].arg.timestamp)
         /\ \A r \in call[p].before.res.val : r.createdAt > call[p].arg.timestamp )
       => /\ ret'.res.err = NoError
          /\ call[p].before.res.val \cap documents' = {}
          /\ \A r \in call[p].before.res.val, s \in suggestions' :
               ~(s.documentId = r.id /\ s.documentCreatedAt = r.createdAt)
          /\ \E r \in documents' : r.id = call[p].arg.id /\ r.createdAt = call[p].arg.timestamp
          /\ \A s \in suggestions :
               (s.documentId = call[p].arg.id /\ s.documentCreatedAt = call[p].arg.timestamp)
               => s \in suggestions']_vars

\* saveSuggestions(d, userId, n suggestions) is called by p in this step: its
\* lookup of the document is answered by the store, or fails in it.
SaveSuggestionsCalled(p, d, n) ==
  \/ SaveSuggestions(p, d, n)
  \/ FirstQueryFails(p, "saveSuggestions", [documentId |-> d, suggestions |-> n])

\* C7, as stated: saveSuggestions on a documentId no Document row has raises
\* the not-found error, issues no insert and leaves every table as it was.
C7_SaveSuggestionsNeedsDocument ==
  [][\A p \in Procs, d \in DocIds, n \in 0..MaxBatch :
       (SaveSuggestionsCalled(p, d, n) /\ \A r \in documents : r.id # d)
       => /\ ret'.res.err = DocumentNotFound
          /\ call'[p] = call[p]
          /\ UNCHANGED <<chatVars, docVars, strays>>]_vars

\* C7, amended: saveSuggestions on a documentId no Document row has raises
\* the not-found error when the store answers its lookup and the error of the
\* store when the lookup itself fails; either way it issues no insert and
\* leaves every table as it was.
C7_MissingDocumentWritesNothing ==
  [][\A p \in Procs, d \in DocIds, n \in 0..MaxBatch :
       (SaveSuggestionsCalled(p, d, n) /\ \A r \in documents : r.id # d)
       => /\ ret'.res.err = IF faults' = faults THEN DocumentNotFound ELSE StoreUnavailable
          /\ call'[p] = call[p]
          /\ UNCHANGED <<chatVars, docVars, strays>>]_vars

\* C7 witness: a call with suggestions to save has raised not-found while
\* other documents were stored.
C7_Witness ==
  /\ ret.op = "saveSuggestions"
  /\ ret.res.err = DocumentNotFound
  /\ ret.arg.suggestions > 0
  /\ documents # {}
  /\ \A r \in documents : r.id # ret.arg.documentId

\* C8: getMessagesByChatId right after a successful saveMessages on a chat
\* that had no messages returns the messages saveMessages returned, in the
\* order of its input.
C8_MessagesComeBackInOrder ==
  [][\A q \in Procs, c \in ChatIds :
       ( /\ GetMessagesByChatId(q, c)
         /\ ret.op = "saveMessages"
         /\ ret.arg.chatId = c
         /\ ret.res.err = NoError
         /\ { r \in messages : r.chatId = c } = Range(ret.res.val) )
       => ret'.res.val = ret.res.val]_vars

\* C9: the Vote table never holds two rows with the same (chatId, messageId),
\* also when two voteMessage calls race to insert the first vote of a
\* message; the call that loses the race ends in a unique-constraint
\* violation, the row of the winner in place.
C9_VoteKeyStaysUnique ==
  /\ \A c \in ChatIds, m \in MsgIds : CopiesOfKey(votes, c, m) <= 1
  /\ (ret.op = "voteMessage" /\ ret.res.err = UniqueViolation)
     => CopiesOfKey(votes, ret.arg.chatId, ret.arg.messageId) = 1

\* C9 witness: a voteMessage that found no vote has lost the race to insert.
C9_Witness ==
  /\ ret.op = "voteMessage"
  /\ ret.res.err = UniqueViolation
  /\ VoteKeyTaken(ret.arg.chatId, ret.arg.messageId)

\* C10: with callers in sequence, voteMessage on an existing chat and an
\* existing message never fails and leaves the Vote row (chatId, messageId)
\* with isUpvoted = (type = up), also when a vote of the message exists under
\* another chat.
C10_VoteNeverFails ==
  [][\A p \in Procs :
       ( /\ VoteUpdate(p) \/ VoteCreate(p)
         /\ ChatExists(call[p].arg.chatId)
         /\ MessageExists(call[p].arg.messageId) )
       => /\ ret'.res.err = NoError
          /\ VoteRow(call[p].arg) \in DOMAIN votes']_vars

====
